---- MODULE Spec2Model ----
(***************************************************************************)
(* Model of pygpsclient/ubx_handler.py: the UBXHandler object, its         *)
(* process_data dispatch, the twelve _process_* handlers and the static    *)
(* poll_ubx_config.                                                        *)
(*                                                                         *)
(* A UBX frame is a sequence of bytes                                      *)
(*    B5 62 class id lenLo lenHi payload... ckA ckB                        *)
(* The handler receives one such block per call.  pyubx2's UBXMessage is   *)
(* the record [clsid, msgid, payload, identity]; its attributes are read   *)
(* out of the payload little-endian at the offsets of the UBX protocol.    *)
(* An attribute whose bytes lie beyond the payload is absent from the      *)
(* message (Python's getattr then raises AttributeError unless a default   *)
(* is given).                                                              *)
(*                                                                         *)
(* Python floats produced by int / int are modelled as exact reduced       *)
(* fractions <<num, den>>.  Text is a sequence of character codes.         *)
(***************************************************************************)
EXTENDS Integers, Sequences, FiniteSets, TLC

\* Number of process_data calls explored in one behaviour.
MaxMsgs == 2

None == "None"

(***************************************************************************)
(* Bytes and integers                                                      *)
(***************************************************************************)
U1(p, off) == p[off + 1]

U2(p, off) == p[off + 1] + 256 * p[off + 2]

\* Unsigned 32 bit, little-endian.  Inputs keep the top byte below 128.
U4(p, off) == p[off + 1] + 256 * p[off + 2] + 65536 * p[off + 3] + 16777216 * p[off + 4]

I1(p, off) == IF p[off + 1] >= 128 THEN p[off + 1] - 256 ELSE p[off + 1]

\* Signed 32 bit, little-endian, two's complement.
I4(p, off) ==
    LET top == IF p[off + 4] >= 128 THEN p[off + 4] - 256 ELSE p[off + 4]
    IN  p[off + 1] + 256 * p[off + 2] + 65536 * p[off + 3] + 16777216 * top

\* int.to_bytes(n, "little") of a value v (two's complement when negative).
ToBytes(v, n) ==
    LET RECURSIVE tb(_, _)
        tb(x, k) == IF k = 0 THEN <<>> ELSE <<x % 256>> \o tb(x \div 256, k - 1)
    IN  tb(v, n)

Zeros(n) == [i \in 1..n |-> 0]

\* message[a:b] of Python, on a 1-based sequence.
Slice(s, a, b) == SubSeq(s, a + 1, b)

(***************************************************************************)
(* Fractions: a / b of Python on integers, as a reduced fraction           *)
(***************************************************************************)
RECURSIVE GCD(_, _)
GCD(a, b) == IF b = 0 THEN a ELSE GCD(b, a % b)

Abs(x) == IF x < 0 THEN -x ELSE x

TrueDiv(a, b) ==
    LET g == GCD(Abs(a), b)
    IN  <<a \div g, b \div g>>

\* The int 0 the constructor stores; 0 == 0.0 in Python.
Zero == TrueDiv(0, 1)

(***************************************************************************)
(* pyubx2: checksum, serialize, parse, lookup tables                       *)
(***************************************************************************)
UBX_HDR == <<181, 98>>

\* UBXMessage.calc_checksum: the 8-bit Fletcher sums over class, id, length and
\* payload, `ck_a = ck_a + c; ck_b = ck_b + ck_a` (mod 256) for each byte c.
\* The sums of a block are computed from the sums of its two halves: after the
\* left half (a1, b1) and n more bytes with sums (a2, b2) taken alone, the loop
\* holds (a1 + a2, b1 + n * a1 + b2).
calc_checksum(content) ==
    LET RECURSIVE ck(_, _)
        ck(lo, hi) ==
            IF lo > hi THEN <<0, 0>>
            ELSE IF lo = hi THEN <<content[lo] % 256, content[lo] % 256>>
            ELSE LET m == (lo + hi) \div 2
                     l == ck(lo, m)
                     r == ck(m + 1, hi)
                 IN  <<(l[1] + r[1]) % 256, (l[2] + (hi - m) * l[1] + r[2]) % 256>>
    IN  ck(1, Len(content))

\* UBXMessage.serialize of a message with the given class, id and payload.
serialize(cls, id, payload) ==
    LET body == <<cls, id>> \o ToBytes(Len(payload), 2) \o payload
    IN  UBX_HDR \o body \o calc_checksum(body)

\* pyubx2.UBX_MSGIDS (the entries used here): class, id -> message name.
UBX_MSGIDS ==
    (<<5, 1>> :> "ACK-ACK") @@ (<<5, 0>> :> "ACK-NAK") @@
    (<<6, 1>> :> "CFG-MSG") @@ (<<6, 0>> :> "CFG-PRT") @@
    (<<6, 2>> :> "CFG-INF") @@ (<<1, 2>> :> "NAV-POSLLH") @@
    (<<1, 7>> :> "NAV-PVT") @@ (<<1, 18>> :> "NAV-VELNED") @@
    (<<1, 48>> :> "NAV-SVINFO") @@ (<<1, 6>> :> "NAV-SOL") @@
    (<<1, 4>> :> "NAV-DOP") @@ (<<10, 4>> :> "MON-VER") @@
    (<<1, 3>> :> "NAV-STATUS") @@ (<<1, 34>> :> "NAV-CLOCK")

\* pyubx2.UBX_CONFIG_MESSAGES (the entries used here): the messages whose
\* output rate CFG-MSG configures.
UBX_CONFIG_MESSAGES ==
    (<<240, 0>> :> "GGA") @@ (<<240, 4>> :> "RMC") @@ (<<1, 7>> :> "NAV-PVT")

\* Class and id of a message name, as UBXMessage(msgtype[0:3], msgtype, POLL)
\* resolves them.
ClsIdOf(name) == CHOOSE k \in DOMAIN UBX_MSGIDS : UBX_MSGIDS[k] = name

ChecksumOK(data) ==
    /\ Len(data) >= 8
    /\ Slice(data, Len(data) - 2, Len(data))
         = calc_checksum(Slice(data, 2, Len(data) - 2))

\* UBXMessage.parse(message, validate).  With validate the header, the declared
\* length and the checksum are compared and a mismatch raises UBXParseError;
\* without it the bytes are taken as they come.
parse(data, validate) ==
    LET payload == Slice(data, 6, Len(data) - 2)
        key     == <<data[3], data[4]>>
    IN  IF validate /\ ~(/\ Slice(data, 0, 2) = UBX_HDR
                         /\ U2(data, 4) = Len(payload)
                         /\ ChecksumOK(data))
        THEN [exc |-> "UBXParseError"]
        ELSE [exc |-> None, clsid |-> data[3], msgid |-> data[4],
              payload |-> payload, identity |-> UBX_MSGIDS[key]]

(***************************************************************************)
(* pyubx2: the attributes of a parsed message                              *)
(*                                                                         *)
(* A location is <<offset, width, kind>>; kind "U" unsigned, "I" signed,   *)
(* "X" raw bytes (bitfields and character arrays).  Only the attributes    *)
(* the handlers read are listed, at their offsets in the UBX payloads.     *)
(***************************************************************************)
Fields(identity) ==
    CASE identity \in {"ACK-ACK", "ACK-NAK"} ->
           [clsID |-> <<0, 1, "U">>, msgID |-> <<1, 1, "U">>]
      [] identity = "CFG-MSG" ->
           [msgClass |-> <<0, 1, "U">>, msgID |-> <<1, 1, "U">>,
            rateDDC |-> <<2, 1, "U">>, rateUART1 |-> <<3, 1, "U">>,
            rateUART2 |-> <<4, 1, "U">>, rateUSB |-> <<5, 1, "U">>,
            rateSPI |-> <<6, 1, "U">>]
      [] identity = "CFG-PRT" ->
           [portID |-> <<0, 1, "U">>, baudRate |-> <<8, 4, "U">>,
            inProtoMask |-> <<12, 2, "X">>, outProtoMask |-> <<14, 2, "X">>]
      [] identity = "NAV-POSLLH" ->
           [iTOW |-> <<0, 4, "U">>, lon |-> <<4, 4, "I">>, lat |-> <<8, 4, "I">>,
            height |-> <<12, 4, "I">>, hMSL |-> <<16, 4, "I">>,
            hAcc |-> <<20, 4, "U">>, vAcc |-> <<24, 4, "U">>]
      [] identity = "NAV-PVT" ->
           [iTOW |-> <<0, 4, "U">>, year |-> <<4, 2, "U">>, month |-> <<6, 1, "U">>,
            day |-> <<7, 1, "U">>, hour |-> <<8, 1, "U">>, min |-> <<9, 1, "U">>,
            second |-> <<10, 1, "U">>, fixType |-> <<20, 1, "U">>,
            numSV |-> <<23, 1, "U">>, lon |-> <<24, 4, "I">>, lat |-> <<28, 4, "I">>,
            height |-> <<32, 4, "I">>, hMSL |-> <<36, 4, "I">>,
            hAcc |-> <<40, 4, "U">>, vAcc |-> <<44, 4, "U">>,
            gSpeed |-> <<60, 4, "I">>, headMot |-> <<64, 4, "I">>,
            pDOP |-> <<76, 2, "U">>]
      [] identity = "NAV-VELNED" ->
           [iTOW |-> <<0, 4, "U">>, speed |-> <<16, 4, "U">>,
            gSpeed |-> <<20, 4, "U">>, heading |-> <<24, 4, "I">>]
      [] identity = "NAV-SVINFO" ->
           [iTOW |-> <<0, 4, "U">>, numCh |-> <<4, 1, "U">>]
      [] identity = "NAV-SOL" ->
           [iTOW |-> <<0, 4, "U">>, gpsFix |-> <<10, 1, "U">>,
            pDOP |-> <<44, 2, "U">>, numSV |-> <<47, 1, "U">>]
      [] identity = "NAV-DOP" ->
           [iTOW |-> <<0, 4, "U">>, gDOP |-> <<4, 2, "U">>, pDOP |-> <<6, 2, "U">>,
            tDOP |-> <<8, 2, "U">>, vDOP |-> <<10, 2, "U">>, hDOP |-> <<12, 2, "U">>]
      [] identity = "MON-VER" ->
           [swVersion |-> <<0, 30, "X">>, hwVersion |-> <<30, 10, "X">>]
      [] OTHER -> [iTOW |-> <<0, 4, "U">>]

\* The repeating group of a payload: where it starts, the size of one item and
\* the attributes of an item relative to the item's start.
Group(identity) ==
    CASE identity = "NAV-SVINFO" ->
           [start |-> 8, size |-> 12,
            fields |-> [chn |-> <<0, 1, "U">>, svid |-> <<1, 1, "U">>,
                        cno |-> <<4, 1, "U">>, elev |-> <<5, 1, "I">>,
                        azim |-> <<6, 2, "I">>]]
      [] identity = "MON-VER" ->
           [start |-> 40, size |-> 30, fields |-> [extension |-> <<0, 30, "X">>]]
      [] OTHER -> [start |-> 0, size |-> 0, fields |-> <<>>]

\* Whether the identity defines attribute `name` (idx = 0) or `name_idx`
\* (idx > 0, the two-digit suffix "_{0:0=2d}".format(idx)).
Defined(msg, name, idx) ==
    IF idx = 0 THEN name \in DOMAIN Fields(msg.identity)
    ELSE name \in DOMAIN Group(msg.identity).fields

\* The location of a defined attribute in the payload.
Loc(msg, name, idx) ==
    IF idx = 0 THEN Fields(msg.identity)[name]
    ELSE LET g == Group(msg.identity)
         IN  <<g.start + (idx - 1) * g.size + g.fields[name][1],
               g.fields[name][2], g.fields[name][3]>>

Decode(p, loc) ==
    LET off == loc[1]
        w   == loc[2]
    IN  CASE loc[3] = "X" -> Slice(p, off, off + w)
          [] loc[3] = "U" /\ w = 1 -> U1(p, off)
          [] loc[3] = "U" /\ w = 2 -> U2(p, off)
          [] loc[3] = "U" /\ w = 4 -> U4(p, off)
          [] loc[3] = "I" /\ w = 1 -> I1(p, off)
          [] loc[3] = "I" /\ w = 2 -> (IF U2(p, off) >= 32768 THEN U2(p, off) - 65536 ELSE U2(p, off))
          [] loc[3] = "I" /\ w = 4 -> I4(p, off)

\* How many items of the repeating group the message holds attributes for:
\* NAV-SVINFO sets as many as numCh says, MON-VER as many as the payload holds.
GroupCount(msg) ==
    CASE msg.identity = "NAV-SVINFO" ->
           IF Len(msg.payload) >= 5 THEN U1(msg.payload, 4) ELSE 0
      [] msg.identity = "MON-VER" ->
           IF Len(msg.payload) >= 40 THEN (Len(msg.payload) - 40) \div 30 ELSE 0
      [] OTHER -> 0

\* hasattr(msg, name): the attribute is defined and its bytes lie in the payload.
HasAttr(msg, name, idx) ==
    /\ Defined(msg, name, idx)
    /\ Loc(msg, name, idx)[1] + Loc(msg, name, idx)[2] <= Len(msg.payload)
    /\ idx > 0 => idx <= GroupCount(msg)

\* getattr(msg, name) where the attribute is present.
Attr(msg, name, idx) == Decode(msg.payload, Loc(msg, name, idx))

\* The position of the first attribute of `names` (a sequence of <<name, idx>>,
\* in the order the handler reads them) that the message lacks: the read that
\* raises AttributeError.  Len(names) + 1 when all are present.
FirstMissing(msg, names) ==
    LET miss == {i \in 1..Len(names) : ~HasAttr(msg, names[i][1], names[i][2])}
    IN  IF miss = {} THEN Len(names) + 1
        ELSE CHOOSE i \in miss : \A j \in miss : i <= j

\* UBXMessage.itow2utc: GPS time of week (ms) to UTC time of day, as
\* <<hour, minute, second, millisecond>>; GPS runs 16 s ahead (35 - 19).
itow2utc(itow) ==
    LET ms == (itow - 16000) % 86400000
    IN  <<ms \div 3600000, (ms \div 60000) % 60, (ms \div 1000) % 60, ms % 1000>>

\* UBXMessage.gpsfix2str
gpsfix2str(fix) ==
    CASE fix = 5 -> "TIME ONLY"
      [] fix = 4 -> "GPS + DR"
      [] fix = 3 -> "3D"
      [] fix = 2 -> "2D"
      [] fix = 1 -> "DR"
      [] OTHER -> "NO FIX"

\* datetime(year, month, day, hour, min, second) raises ValueError unless the
\* fields name a moment of the proleptic Gregorian calendar.
IsLeap(y) == (y % 4 = 0 /\ y % 100 # 0) \/ y % 400 = 0

DaysIn(y, m) ==
    IF m = 2 THEN (IF IsLeap(y) THEN 29 ELSE 28)
    ELSE IF m \in {4, 6, 9, 11} THEN 30 ELSE 31

ValidDateTime(y, mo, d, h, mi, s) ==
    /\ y \in 1..9999
    /\ mo \in 1..12
    /\ d \in 1..DaysIn(y, mo)
    /\ h \in 0..23
    /\ mi \in 0..59
    /\ s \in 0..59

(***************************************************************************)
(* Text: bytes.replace, bytes.decode, str.replace, the `in` test           *)
(***************************************************************************)
NA == <<110, 47, 97>>                                \* "n/a"
ROM_CORE == <<82, 79, 77, 32, 67, 79, 82, 69>>       \* "ROM CORE"
ROM == <<82, 79, 77>>                                \* "ROM"
EXT_CORE == <<69, 88, 84, 32, 67, 79, 82, 69>>       \* "EXT CORE"
Flash == <<70, 108, 97, 115, 104>>                   \* "Flash"
FWVER_EQ == <<70, 87, 86, 69, 82, 61>>               \* "FWVER="
PROTVER_EQ == <<80, 82, 79, 84, 86, 69, 82, 61>>     \* "PROTVER="
PROTVER_SP == <<80, 82, 79, 84, 86, 69, 82, 32>>     \* "PROTVER "
\* ("GPS", "GLO", "GAL", "BDS", "SBAS", "IMES", "QZSS")
GNSS == << <<71, 80, 83>>, <<71, 76, 79>>, <<71, 65, 76>>, <<66, 68, 83>>,
           <<83, 66, 65, 83>>, <<73, 77, 69, 83>>, <<81, 90, 83, 83>> >>

\* b.replace(b"\x00", b"")
StripNulls(b) == SelectSeq(b, LAMBDA c : c # 0)

\* Whether b.decode("utf-8") succeeds.  The inputs hold ASCII and the byte FF,
\* which no UTF-8 text contains; a failure is a UnicodeDecodeError, a ValueError.
Utf8Ok(b) == \A i \in 1..Len(b) : b[i] < 128

StartsAt(s, pat, i) ==
    /\ i + Len(pat) - 1 <= Len(s)
    /\ SubSeq(s, i, i + Len(pat) - 1) = pat

\* pat in s
Contains(s, pat) == \E i \in 1..Len(s) : StartsAt(s, pat, i)

\* s.replace(old, new)
Replace(s, old, new) ==
    LET RECURSIVE r(_)
        r(i) == IF i > Len(s) THEN <<>>
                ELSE IF StartsAt(s, old, i) THEN new \o r(i + Len(old))
                ELSE <<s[i]>> \o r(i + 1)
    IN  r(1)

(***************************************************************************)
(* The handlers.  Each takes the handler object, the application (the      *)
(* config dialog and the settings) and the parsed message, and yields the  *)
(* handler object afterwards, the calls made on the application's widgets  *)
(* in order, and the exception that left the handler (None when it         *)
(* returned).                                                              *)
(***************************************************************************)
Res(self, calls, exc) == [self |-> self, calls |-> calls, exc |-> exc]

Call(to, args) == [to |-> to, args |-> args]

DlgUpdate_always(app, args) == <<Call("dlg_ubxconfig.update", args)>>

\* `if self.__app.dlg_ubxconfig is not None: self.__app.dlg_ubxconfig.update(...)`
DlgUpdate(app, args) ==
    IF app.dlg_ubxconfig # None THEN <<Call("dlg_ubxconfig.update", args)>> ELSE <<>>

msgclass2bytes(msgClass, msgID) == <<msgClass, msgID>>

process_ACK_ACK(self, app, data) ==
    IF FirstMissing(data, << <<"clsID", 0>>, <<"msgID", 0>> >>) <= 2
    THEN Res(self, <<>>, "AttributeError")
    ELSE LET key == msgclass2bytes(Attr(data, "clsID", 0), Attr(data, "msgID", 0))
         IN  IF key \notin DOMAIN UBX_MSGIDS
             THEN Res(self, <<>>, "KeyError")
             ELSE Res(self, DlgUpdate(app, [msg |-> "ACK-ACK", msgtype |-> UBX_MSGIDS[key]]), None)

process_ACK_NAK(self, app, data) ==
    IF FirstMissing(data, << <<"clsID", 0>>, <<"msgID", 0>> >>) <= 2
    THEN Res(self, <<>>, "AttributeError")
    ELSE LET key == msgclass2bytes(Attr(data, "clsID", 0), Attr(data, "msgID", 0))
         IN  IF key \notin DOMAIN UBX_MSGIDS
             THEN Res(self, <<>>, "KeyError")
             ELSE Res(self, DlgUpdate(app, [msg |-> "ACK-NAK", msgtype |-> UBX_MSGIDS[key]]), None)

process_CFG_MSG(self, app, data) ==
    LET names == << <<"msgClass", 0>>, <<"msgID", 0>>, <<"rateDDC", 0>>, <<"rateUART1", 0>>,
                    <<"rateUART2", 0>>, <<"rateUSB", 0>>, <<"rateSPI", 0>> >>
        k == FirstMissing(data, names)
    IN  IF k <= 2 THEN Res(self, <<>>, "AttributeError")
        ELSE LET key == msgclass2bytes(Attr(data, "msgClass", 0), Attr(data, "msgID", 0))
             IN  IF key \notin DOMAIN UBX_CONFIG_MESSAGES THEN Res(self, <<>>, "KeyError")
                 ELSE IF k <= Len(names) THEN Res(self, <<>>, "AttributeError")
                 ELSE Res(self,
                          DlgUpdate(app, [msg |-> "CFG-MSG",
                                          msgtype |-> UBX_CONFIG_MESSAGES[key],
                                          ddcrate |-> Attr(data, "rateDDC", 0),
                                          uart1rate |-> Attr(data, "rateUART1", 0),
                                          uart2rate |-> Attr(data, "rateUART2", 0),
                                          usbrate |-> Attr(data, "rateUSB", 0),
                                          spirate |-> Attr(data, "rateSPI", 0)]),
                          None)

process_CFG_INF(self, app, data) ==
    Res(self, DlgUpdate(app, [msg |-> "CFG-INF"]), None)

\* int.from_bytes(b, "little", signed=False) of a two-byte mask
MaskToInt(b) == U2(b, 0)

process_CFG_PRT(self, app, data) ==
    LET names == << <<"baudRate", 0>>, <<"inProtoMask", 0>>, <<"outProtoMask", 0>> >>
        k  == FirstMissing(data, names)
        s1 == [self EXCEPT
                 !.ubx_baudrate = IF k > 1 THEN Attr(data, "baudRate", 0) ELSE @,
                 !.ubx_inprot   = IF k > 2 THEN MaskToInt(Attr(data, "inProtoMask", 0)) ELSE @,
                 !.ubx_outprot  = IF k > 3 THEN MaskToInt(Attr(data, "outProtoMask", 0)) ELSE @]
    IN  IF k <= Len(names) THEN Res(s1, <<>>, "AttributeError")
        ELSE Res(s1,
                 DlgUpdate(app, [msg |-> "CFG-PRT", baudrate |-> s1.ubx_baudrate,
                                 inprot |-> s1.ubx_inprot, outprot |-> s1.ubx_outprot]),
                 None)

\* x / 10 ** 7, x / 1000, x / 10 ** 5, x / 100
ScaleE7(raw) == TrueDiv(raw, 10000000)

ScaleE3_centi(raw) == TrueDiv(raw, 100)

ScaleE3(raw) == TrueDiv(raw, 1000)

ScaleE5(raw) == TrueDiv(raw, 100000)

ScaleE2(raw) == TrueDiv(raw, 100)

process_NAV_POSLLH(self, app, data) ==
    LET names == << <<"iTOW", 0>>, <<"lat", 0>>, <<"lon", 0>>, <<"hMSL", 0>>,
                    <<"hAcc", 0>>, <<"vAcc", 0>> >>
        k  == FirstMissing(data, names)
        s1 == [self EXCEPT
                 !.utc  = IF k > 1 THEN itow2utc(Attr(data, "iTOW", 0)) ELSE @,
                 !.lat  = IF k > 2 THEN ScaleE7(Attr(data, "lat", 0)) ELSE @,
                 !.lon  = IF k > 3 THEN ScaleE7(Attr(data, "lon", 0)) ELSE @,
                 !.alt  = IF k > 4 THEN ScaleE3(Attr(data, "hMSL", 0)) ELSE @,
                 !.hacc = IF k > 5 THEN ScaleE3(Attr(data, "hAcc", 0)) ELSE @,
                 !.vacc = IF k > 6 THEN ScaleE3(Attr(data, "vAcc", 0)) ELSE @]
    IN  IF k <= Len(names) THEN Res(s1, <<>>, "AttributeError")
        ELSE Res(s1,
                 << Call("frm_banner.update_banner",
                         [time |-> s1.utc, lat |-> s1.lat, lon |-> s1.lon, alt |-> s1.alt,
                          hacc |-> s1.hacc, vacc |-> s1.vacc]),
                    Call("frm_mapview.update_map",
                         [lat |-> s1.lat, lon |-> s1.lon, hacc |-> s1.hacc]) >>,
                 None)

\* The fix value written to the track file.
TrackFix(fix) == IF fix = "3D" THEN "3d" ELSE IF fix = "2D" THEN "2d" ELSE "none"

RecordingTrack_always(self, app) == TRUE

\* `self.__app.frm_settings.get_settings()["recordtrack"] and self.lat != "" and
\* self.lon != ""`: lat and lon are numbers here, never the empty string.
RecordingTrack(self, app) == app.settings.recordtrack

\* The part of _process_NAV_PVT after the map update: the trackpoint, when
\* tracks are recorded.  datetime(...) raising ValueError ends the handler
\* through its `except ValueError: pass`.
PvtTrackpoint(self, app, data) ==
    LET names == << <<"year", 0>>, <<"month", 0>>, <<"day", 0>>, <<"hour", 0>>,
                    <<"min", 0>>, <<"second", 0>> >>
    IN  IF ~RecordingTrack(self, app) THEN [calls |-> <<>>, exc |-> None]
        ELSE IF FirstMissing(data, names) <= Len(names)
        THEN [calls |-> <<>>, exc |-> "AttributeError"]
        ELSE LET y  == Attr(data, "year", 0)
                 mo == Attr(data, "month", 0)
                 d  == Attr(data, "day", 0)
                 h  == Attr(data, "hour", 0)
                 mi == Attr(data, "min", 0)
                 sc == Attr(data, "second", 0)
             IN  IF ~ValidDateTime(y, mo, d, h, mi, sc)
                 THEN [calls |-> <<>>, exc |-> None]
                 ELSE [calls |-> << Call("file_handler.add_trackpoint",
                                         [lat |-> self.lat, lon |-> self.lon,
                                          ele |-> self.alt,
                                          time |-> <<y, mo, d, h, mi, sc>>,
                                          fix |-> TrackFix(gpsfix2str(Attr(data, "fixType", 0))),
                                          sat |-> self.sip, pdop |-> self.pdop]) >>,
                       exc |-> None]

process_NAV_PVT(self, app, data) ==
    LET names == << <<"iTOW", 0>>, <<"lat", 0>>, <<"lon", 0>>, <<"hMSL", 0>>,
                    <<"hAcc", 0>>, <<"vAcc", 0>>, <<"pDOP", 0>>, <<"numSV", 0>>,
                    <<"gSpeed", 0>>, <<"headMot", 0>>, <<"fixType", 0>> >>
        k  == FirstMissing(data, names)
        s1 == [self EXCEPT
                 !.utc   = IF k > 1 THEN itow2utc(Attr(data, "iTOW", 0)) ELSE @,
                 !.lat   = IF k > 2 THEN ScaleE7(Attr(data, "lat", 0)) ELSE @,
                 !.lon   = IF k > 3 THEN ScaleE7(Attr(data, "lon", 0)) ELSE @,
                 !.alt   = IF k > 4 THEN ScaleE3(Attr(data, "hMSL", 0)) ELSE @,
                 !.hacc  = IF k > 5 THEN ScaleE3(Attr(data, "hAcc", 0)) ELSE @,
                 !.vacc  = IF k > 6 THEN ScaleE3(Attr(data, "vAcc", 0)) ELSE @,
                 !.pdop  = IF k > 7 THEN ScaleE2(Attr(data, "pDOP", 0)) ELSE @,
                 !.sip   = IF k > 8 THEN Attr(data, "numSV", 0) ELSE @,
                 !.speed = IF k > 9 THEN ScaleE3(Attr(data, "gSpeed", 0)) ELSE @,
                 !.track = IF k > 10 THEN ScaleE5(Attr(data, "headMot", 0)) ELSE @]
    IN  IF k <= Len(names) THEN Res(s1, <<>>, "AttributeError")
        ELSE LET shown == << Call("frm_banner.update_banner",
                                  [time |-> s1.utc, lat |-> s1.lat, lon |-> s1.lon,
                                   alt |-> s1.alt, hacc |-> s1.hacc, vacc |-> s1.vacc,
                                   dop |-> s1.pdop, sip |-> s1.sip, speed |-> s1.speed,
                                   fix |-> gpsfix2str(Attr(data, "fixType", 0)),
                                   track |-> s1.track]),
                             Call("frm_mapview.update_map",
                                  [lat |-> s1.lat, lon |-> s1.lon, hacc |-> s1.hacc]) >>
                 tp == PvtTrackpoint(s1, app, data)
             IN  Res(s1, shown \o tp.calls, tp.exc)

process_NAV_VELNED(self, app, data) ==
    LET names == << <<"heading", 0>>, <<"gSpeed", 0>> >>
        k  == FirstMissing(data, names)
        s1 == [self EXCEPT
                 !.track = IF k > 1 THEN ScaleE5(Attr(data, "heading", 0)) ELSE @,
                 !.speed = IF k > 2 THEN ScaleE2(Attr(data, "gSpeed", 0)) ELSE @]
    IN  IF k <= Len(names) THEN Res(s1, <<>>, "AttributeError")
        ELSE Res(s1,
                 << Call("frm_banner.update_banner",
                         [speed |-> s1.speed, track |-> s1.track]) >>,
                 None)

SvinfoReset_keep(self) == self.gsv_data

\* `self.gsv_data = []`
SvinfoReset(self) == <<>>

\* One turn of the loop: the tuple of satellite i (1-based).
SvTuple(data, i) ==
    <<Attr(data, "svid", i), Attr(data, "elev", i), Attr(data, "azim", i), Attr(data, "cno", i)>>

SvNames(i) == << <<"svid", i>>, <<"elev", i>>, <<"azim", i>>, <<"cno", i>> >>

process_NAV_SVINFO(self, app, data) ==
    LET s0 == [self EXCEPT !.gsv_data = SvinfoReset(self)]
    IN  IF ~HasAttr(data, "numCh", 0) THEN Res(s0, <<>>, "AttributeError")
        ELSE
        LET num_siv == Attr(data, "numCh", 0)
            banner  == Call("frm_banner.update_banner", [siv |-> num_siv])
            \* the satellites appended before a read raises (all of them if none does)
            bad     == {i \in 1..num_siv : FirstMissing(data, SvNames(i)) <= 4}
            n       == IF bad = {} THEN num_siv
                       ELSE (CHOOSE i \in bad : \A j \in bad : i <= j) - 1
            s1      == [s0 EXCEPT !.gsv_data = @ \o [i \in 1..n |-> SvTuple(data, i)]]
        IN  IF bad # {} THEN Res(s1, <<banner>>, "AttributeError")
            ELSE Res(s1,
                     << banner,
                        Call("frm_satview.update_sats", [data |-> s1.gsv_data]),
                        Call("frm_graphview.update_graph",
                             [data |-> s1.gsv_data, siv |-> num_siv]) >>,
                     None)

process_NAV_SOL(self, app, data) ==
    LET names == << <<"pDOP", 0>>, <<"numSV", 0>>, <<"gpsFix", 0>> >>
        k  == FirstMissing(data, names)
        s1 == [self EXCEPT
                 !.pdop = IF k > 1 THEN ScaleE2(Attr(data, "pDOP", 0)) ELSE @,
                 !.sip  = IF k > 2 THEN Attr(data, "numSV", 0) ELSE @]
    IN  IF k <= Len(names) THEN Res(s1, <<>>, "AttributeError")
        ELSE Res(s1,
                 << Call("frm_banner.update_banner",
                         [dop |-> s1.pdop, fix |-> gpsfix2str(Attr(data, "gpsFix", 0)),
                          sip |-> s1.sip]) >>,
                 None)

process_NAV_DOP(self, app, data) ==
    LET names == << <<"pDOP", 0>>, <<"hDOP", 0>>, <<"vDOP", 0>> >>
        k  == FirstMissing(data, names)
        s1 == [self EXCEPT
                 !.pdop = IF k > 1 THEN ScaleE2(Attr(data, "pDOP", 0)) ELSE @,
                 !.hdop = IF k > 2 THEN ScaleE2(Attr(data, "hDOP", 0)) ELSE @,
                 !.vdop = IF k > 3 THEN ScaleE2(Attr(data, "vDOP", 0)) ELSE @]
    IN  IF k <= Len(names) THEN Res(s1, <<>>, "AttributeError")
        ELSE Res(s1,
                 << Call("frm_banner.update_banner",
                         [dop |-> s1.pdop, hdop |-> s1.hdop, vdop |-> s1.vdop]) >>,
                 None)

\* getattr(data, name, default).replace(b"\x00", b"").decode("utf-8") of
\* _process_MON_VER: [exc, text].  The default "n/a" is a str, and str.replace
\* given bytes arguments raises TypeError; the default b"" is bytes.
MonVerText(data, name, idx, default_is_str) ==
    IF ~HasAttr(data, name, idx)
    THEN IF default_is_str THEN [exc |-> "TypeError", text |-> <<>>]
         ELSE [exc |-> None, text |-> <<>>]
    ELSE LET b == StripNulls(Attr(data, name, idx))
         IN  IF Utf8Ok(b) THEN [exc |-> None, text |-> b]
             ELSE [exc |-> "ValueError", text |-> <<>>]

\* fw_version after the loop has seen extensions i..4, starting from `cur`.
RECURSIVE FwVersion(_, _, _)
FwVersion(exts, i, cur) ==
    IF i > Len(exts) THEN cur
    ELSE FwVersion(exts, i + 1,
                   IF Contains(exts[i], FWVER_EQ) THEN Replace(exts[i], FWVER_EQ, <<>>) ELSE cur)

RECURSIVE Protocol(_, _, _)
Protocol(exts, i, cur) ==
    IF i > Len(exts) THEN cur
    ELSE LET p1 == IF Contains(exts[i], PROTVER_EQ)
                   THEN Replace(exts[i], PROTVER_EQ, <<>>) ELSE cur
             p2 == IF Contains(exts[i], PROTVER_SP)
                   THEN Replace(exts[i], PROTVER_SP, <<>>) ELSE p1
         IN  Protocol(exts, i + 1, p2)

\* gnss_supported: every GNSS name found in an extension, each followed by " ".
RECURSIVE GnssSupported(_, _, _)
GnssSupported(exts, i, g) ==
    IF i > Len(exts) THEN <<>>
    ELSE IF g > Len(GNSS) THEN GnssSupported(exts, i + 1, 1)
    ELSE (IF Contains(exts[i], GNSS[g]) THEN GNSS[g] \o <<32>> ELSE <<>>)
         \o GnssSupported(exts, i, g + 1)

process_MON_VER(self, app, data) ==
    LET sw   == MonVerText(data, "swVersion", 0, TRUE)
        hw   == MonVerText(data, "hwVersion", 0, TRUE)
        ex   == [i \in 1..4 |-> MonVerText(data, "extension", i, FALSE)]
        exts == [i \in 1..4 |-> ex[i].text]
        \* the first statement of the try block that raises, in program order
        raised == << sw.exc, hw.exc, ex[1].exc, ex[2].exc, ex[3].exc, ex[4].exc >>
        bad  == {i \in 1..6 : raised[i] # None}
        exc  == IF bad = {} THEN None
                ELSE raised[CHOOSE i \in bad : \A j \in bad : i <= j]
    IN  IF exc = "ValueError" THEN Res(self, <<>>, None)
        ELSE IF exc # None THEN Res(self, <<>>, exc)
        ELSE Res(self,
                 DlgUpdate(app, [msg |-> "MON-VER",
                                 swversion |-> Replace(Replace(sw.text, ROM_CORE, ROM),
                                                       EXT_CORE, Flash),
                                 hwversion |-> hw.text,
                                 fwversion |-> FwVersion(exts, 1, NA),
                                 protocol |-> Protocol(exts, 1, NA),
                                 gnsssupported |-> GnssSupported(exts, 1, 1)]),
                 None)

(***************************************************************************)
(* process_data and poll_ubx_config                                        *)
(***************************************************************************)
Handled ==
    {"ACK-ACK", "ACK-NAK", "CFG-MSG", "CFG-PRT", "CFG-INF", "NAV-POSLLH", "NAV-PVT",
     "NAV-VELNED", "NAV-SVINFO", "NAV-SOL", "NAV-DOP", "MON-VER"}

\* The chain of `if parsed_data.identity == ...` of process_data: the handler
\* run for the message, if any.
Dispatch(self, app, msg) ==
    CASE msg.identity = "ACK-ACK"    -> process_ACK_ACK(self, app, msg)
      [] msg.identity = "ACK-NAK"    -> process_ACK_NAK(self, app, msg)
      [] msg.identity = "CFG-MSG"    -> process_CFG_MSG(self, app, msg)
      [] msg.identity = "CFG-PRT"    -> process_CFG_PRT(self, app, msg)
      [] msg.identity = "CFG-INF"    -> process_CFG_INF(self, app, msg)
      [] msg.identity = "NAV-POSLLH" -> process_NAV_POSLLH(self, app, msg)
      [] msg.identity = "NAV-PVT"    -> process_NAV_PVT(self, app, msg)
      [] msg.identity = "NAV-VELNED" -> process_NAV_VELNED(self, app, msg)
      [] msg.identity = "NAV-SVINFO" -> process_NAV_SVINFO(self, app, msg)
      [] msg.identity = "NAV-SOL"    -> process_NAV_SOL(self, app, msg)
      [] msg.identity = "NAV-DOP"    -> process_NAV_DOP(self, app, msg)
      [] msg.identity = "MON-VER"    -> process_MON_VER(self, app, msg)
      [] OTHER -> Res(self, <<>>, None)

\* The handlers process_data invokes for an identity, in order.
Invoked(identity) == IF identity \in Handled THEN <<identity>> ELSE <<>>

\* The second argument of `UBXMessage.parse(data, False)`.
ParseValidate == FALSE

\* _update_console: one line on the console, the raw bytes or the parsed message
\* as the "raw" setting says (the text itself is not modelled).
update_console(app) == Call("frm_console.update_console", <<>>)

AfterDispatch_noreturn(app, msg, r) ==
    [self |-> r.self, invoked |-> Invoked(msg.identity),
     calls |-> IF r.exc # None THEN r.calls ELSE r.calls \o <<update_console(app)>>,
     exc |-> r.exc, parsed |-> <<>>]

\* process_data once the handler has run with outcome r: an exception leaves
\* process_data at once, otherwise the console is updated and the message returned.
AfterDispatch(app, msg, r) ==
    IF r.exc # None
    THEN [self |-> r.self, invoked |-> Invoked(msg.identity),
          calls |-> r.calls, exc |-> r.exc, parsed |-> <<>>]
    ELSE [self |-> r.self, invoked |-> Invoked(msg.identity),
          calls |-> r.calls \o <<update_console(app)>>, exc |-> None,
          parsed |-> <<msg>>]

\* process_data once UBXMessage.parse has returned or raised.
AfterParse(self, app, msg) ==
    IF msg.exc # None
    THEN [self |-> self, invoked |-> <<>>, calls |-> <<>>, exc |-> msg.exc,
          parsed |-> <<>>]
    ELSE AfterDispatch(app, msg, Dispatch(self, app, msg))

\* process_data(self, data): the handler object afterwards, the handlers invoked,
\* the calls made, and the exception raised or the message returned.
process_data(self, app, data) == AfterParse(self, app, parse(data, ParseValidate))

poll_ubx_config_swapped ==
    [i \in 1..2 |->
        LET msgtype == <<"MON-VER", "CFG-PRT">>[i]
        IN  serialize(ClsIdOf(msgtype)[1], ClsIdOf(msgtype)[2], <<>>)]

\* poll_ubx_config(serial): the frames written to the sink, in order.
poll_ubx_config ==
    [i \in 1..2 |->
        LET msgtype == <<"CFG-PRT", "MON-VER">>[i]
        IN  serialize(ClsIdOf(msgtype)[1], ClsIdOf(msgtype)[2], <<>>)]

(***************************************************************************)
(* The byte blocks a receiver sends, as the inputs of process_data         *)
(***************************************************************************)
AckPayload(cls, id) == <<cls, id>>

CfgMsgPayload(cls, id, rates) == <<cls, id>> \o rates

CfgPrtPayload(baud, inmask, outmask) ==
    <<1, 0, 0, 0>> \o <<192, 8, 0, 0>> \o ToBytes(baud, 4) \o ToBytes(inmask, 2)
    \o ToBytes(outmask, 2) \o Zeros(4)

PosllhPayload(itow, lon, lat, hmsl, hacc, vacc) ==
    ToBytes(itow, 4) \o ToBytes(lon, 4) \o ToBytes(lat, 4) \o ToBytes(hmsl + 48000, 4)
    \o ToBytes(hmsl, 4) \o ToBytes(hacc, 4) \o ToBytes(vacc, 4)

\* date is <<year, month, day, hour, min, second>>, pos is <<lon, lat, hMSL, hAcc, vAcc>>.
PvtPayload(itow, date, fixType, numSV, pos, gSpeed, headMot, pDOP) ==
    ToBytes(itow, 4) \o ToBytes(date[1], 2)
    \o <<date[2], date[3], date[4], date[5], date[6]>> \o <<7>>
    \o Zeros(8) \o <<fixType, 1, 0, numSV>>
    \o ToBytes(pos[1], 4) \o ToBytes(pos[2], 4) \o ToBytes(pos[3] + 48000, 4)
    \o ToBytes(pos[3], 4) \o ToBytes(pos[4], 4) \o ToBytes(pos[5], 4)
    \o Zeros(12) \o ToBytes(gSpeed, 4) \o ToBytes(headMot, 4) \o Zeros(8)
    \o ToBytes(pDOP, 2) \o Zeros(14)

VelnedPayload(itow, gSpeed, heading) ==
    ToBytes(itow, 4) \o Zeros(12) \o ToBytes(gSpeed, 4) \o ToBytes(gSpeed, 4)
    \o ToBytes(heading, 4) \o Zeros(8)

\* sats is a sequence of <<svid, elev, azim, cno>>; numCh is the declared count.
RECURSIVE SvGroups(_, _)
SvGroups(sats, i) ==
    IF i > Len(sats) THEN <<>>
    ELSE <<i - 1, sats[i][1], 13, 7, sats[i][4]>> \o ToBytes(sats[i][2], 1)
         \o ToBytes(sats[i][3], 2) \o Zeros(4) \o SvGroups(sats, i + 1)

SvinfoPayload(itow, numCh, sats) ==
    ToBytes(itow, 4) \o <<numCh, 0, 0, 0>> \o SvGroups(sats, 1)

SolPayload(itow, gpsFix, pDOP, numSV) ==
    ToBytes(itow, 4) \o Zeros(6) \o <<gpsFix, 13>> \o Zeros(32) \o ToBytes(pDOP, 2)
    \o <<0, numSV>> \o Zeros(4)

DopPayload(itow, pDOP, hDOP, vDOP) ==
    ToBytes(itow, 4) \o ToBytes(pDOP + hDOP, 2) \o ToBytes(pDOP, 2) \o ToBytes(90, 2)
    \o ToBytes(vDOP, 2) \o ToBytes(hDOP, 2) \o ToBytes(80, 2) \o ToBytes(70, 2)

\* text padded with nulls to n bytes
Padded(text, n) == text \o Zeros(n - Len(text))

RECURSIVE ExtBytes(_, _)
ExtBytes(exts, i) ==
    IF i > Len(exts) THEN <<>> ELSE Padded(exts[i], 30) \o ExtBytes(exts, i + 1)

MonVerPayload(sw, hw, exts) == Padded(sw, 30) \o Padded(hw, 10) \o ExtBytes(exts, 1)

\* A frame whose last checksum byte was altered on the way.
BadChecksum(frame) ==
    [frame EXCEPT ![Len(frame)] = (@ + 1) % 256]

\* A frame one of whose payload bytes (0-based position pos) was altered.
BadPayload(frame, pos, byte) ==
    [frame EXCEPT ![pos + 7] = byte]

TxtSw1 == <<82, 79, 77, 32, 67, 79, 82, 69, 32, 51, 46, 48, 49>>      \* "ROM CORE 3.01"
TxtSw2 == <<69, 88, 84, 32, 67, 79, 82, 69, 32, 52, 46, 48, 52>>      \* "EXT CORE 4.04"
TxtHw == <<48, 48, 48, 56, 48, 48, 48, 48>>                           \* "00080000"
TxtFw == <<70, 87, 86, 69, 82, 61, 83, 80, 71, 32, 51, 46, 48, 49>>   \* "FWVER=SPG 3.01"
TxtProt1 == <<80, 82, 79, 84, 86, 69, 82, 61, 49, 56, 46, 48, 48>>    \* "PROTVER=18.00"
TxtProt2 == <<80, 82, 79, 84, 86, 69, 82, 32, 49, 52, 46, 48, 48>>    \* "PROTVER 14.00"
TxtGnss == <<71, 80, 83, 59, 71, 76, 79, 59, 83, 66, 65, 83>>         \* "GPS;GLO;SBAS"

DateOk == <<2020, 9, 30, 12, 34, 56>>
DateLeapSecond == <<2016, 12, 31, 23, 59, 60>>
DateUnset == <<0, 0, 0, 0, 0, 0>>
PosA == <<85432100, 473397123, 123456, 2500, 3750>>
PosB == <<-1229876543, -337654321, -4321, 10000, 15000>>
Sats3 == << <<5, 45, 120, 38>>, <<12, -3, 301, 0>>, <<29, 90, 0, 51>> >>
Sats2 == << <<7, 10, 359, 22>>, <<5, 45, 120, 38>> >>

AckFrames ==
    { serialize(5, 1, AckPayload(6, 1)), serialize(5, 1, AckPayload(6, 153)),
      serialize(5, 0, AckPayload(6, 0)), serialize(5, 0, AckPayload(153, 153)) }

CfgFrames ==
    { serialize(6, 1, CfgMsgPayload(240, 0, <<0, 1, 0, 1, 0, 0>>)),
      serialize(6, 1, CfgMsgPayload(245, 119, <<0, 1, 0, 0, 0, 0>>)),
      serialize(6, 0, CfgPrtPayload(115200, 1, 1)),
      serialize(6, 0, CfgPrtPayload(9600, 7, 3)),
      serialize(6, 2, Zeros(10)) }

PvtFrames ==
    { serialize(1, 7, PvtPayload(345600000, DateOk, 3, 9, PosA, 1234, 12345678, 150)),
      serialize(1, 7, PvtPayload(345601000, DateOk, 2, 4, PosB, 0, -4500000, 999)),
      serialize(1, 7, PvtPayload(345602000, DateOk, 0, 0, PosB, 0, 0, 9999)),
      serialize(1, 7, PvtPayload(604799000, DateLeapSecond, 3, 7, PosA, 20, 9000000, 210)),
      serialize(1, 7, PvtPayload(1000, DateUnset, 0, 0, PosB, 0, 0, 9999)),
      \* cut short after vAcc
      serialize(1, 7, SubSeq(PvtPayload(345603000, DateOk, 3, 9, PosA, 1234, 12345678, 150), 1, 48)) }

NavFrames ==
    { serialize(1, 2, PosllhPayload(345600000, PosA[1], PosA[2], PosA[3], PosA[4], PosA[5])),
      serialize(1, 2, PosllhPayload(15000, PosB[1], PosB[2], PosB[3], PosB[4], PosB[5])),
      serialize(1, 18, VelnedPayload(345600000, 1234, 12345678)),
      serialize(1, 18, VelnedPayload(345601000, 5, 35999999)),
      serialize(1, 6, SolPayload(345600000, 3, 150, 9)),
      serialize(1, 6, SolPayload(345601000, 0, 9999, 0)),
      serialize(1, 4, DopPayload(345600000, 150, 90, 120)),
      serialize(1, 4, DopPayload(345601000, 9999, 9999, 9999)) }

SvinfoFrames ==
    { serialize(1, 48, SvinfoPayload(345600000, 3, Sats3)),
      serialize(1, 48, SvinfoPayload(345601000, 2, Sats2)),
      serialize(1, 48, SvinfoPayload(345602000, 0, <<>>)),
      \* declares three satellites and carries two
      serialize(1, 48, SvinfoPayload(345603000, 3, Sats2)) }

MonVerFrames ==
    { serialize(10, 4, MonVerPayload(TxtSw1, TxtHw, <<TxtFw, TxtProt1, TxtGnss>>)),
      serialize(10, 4, MonVerPayload(TxtSw2, TxtHw, <<TxtProt2>>)),
      serialize(10, 4, MonVerPayload(TxtSw1, TxtHw, <<>>)),
      \* a software version that is not UTF-8
      serialize(10, 4, MonVerPayload(<<255>> \o TxtSw1, TxtHw, <<TxtFw>>)),
      \* no hardware version, and no version at all
      serialize(10, 4, Padded(TxtSw1, 30)),
      serialize(10, 4, <<>>) }

OtherFrames ==
    { serialize(1, 3, ToBytes(345600000, 4) \o <<3, 221, 0, 8>> \o Zeros(8)),
      serialize(1, 34, ToBytes(345600000, 4) \o Zeros(16)) }

GoodFrames ==
    AckFrames \cup CfgFrames \cup PvtFrames \cup NavFrames \cup SvinfoFrames
    \cup MonVerFrames \cup OtherFrames

\* Blocks damaged on the way: the checksum no longer matches.
DamagedFrames ==
    { BadChecksum(serialize(1, 7, PvtPayload(345600000, DateOk, 3, 9, PosA, 1234, 12345678, 150))),
      BadPayload(serialize(1, 2, PosllhPayload(345600000, PosA[1], PosA[2], PosA[3], PosA[4], PosA[5])), 11, 99),
      BadChecksum(serialize(1, 48, SvinfoPayload(345601000, 2, Sats2))),
      BadPayload(serialize(6, 0, CfgPrtPayload(9600, 7, 3)), 9, 150),
      BadChecksum(serialize(5, 1, AckPayload(6, 1))),
      BadChecksum(serialize(1, 34, ToBytes(345600000, 4) \o Zeros(16))) }

Frames == GoodFrames \cup DamagedFrames

(***************************************************************************)
(* The state machine                                                       *)
(***************************************************************************)
VARIABLES
    self,           \* the UBXHandler object's fields
    dlg_ubxconfig,  \* app.dlg_ubxconfig: None, or the open config dialog
    settings,       \* app.frm_settings.get_settings()
    data,           \* the block given to the last process_data call
    invoked,        \* the _process_* handlers that call invoked
    calls,          \* the calls it made on the application's widgets, in order
    ret,            \* [exc, parsed]: what it raised, or the message it returned
    serial,         \* what the last poll_ubx_config call wrote to its sink, in order
    trackpoints,    \* number of add_trackpoint calls so far
    pvt_recorded,   \* number of NAV-PVT messages processed (process_data returned)
                    \* while recordtrack was on
    nmsgs           \* number of process_data calls so far

vars == <<self, dlg_ubxconfig, settings, data, invoked, calls, ret, serial,
          trackpoints, pvt_recorded, nmsgs>>

\* UBXHandler.__init__
InitSelf ==
    [gsv_data |-> <<>>, lon |-> Zero, lat |-> Zero, alt |-> Zero, track |-> Zero,
     speed |-> Zero, pdop |-> Zero, hdop |-> Zero, vdop |-> Zero, hacc |-> Zero,
     vacc |-> Zero, utc |-> <<>>, sip |-> 0, fix |-> "-",
     ubx_baudrate |-> 9600, ubx_inprot |-> 7, ubx_outprot |-> 3]

App == [dlg_ubxconfig |-> dlg_ubxconfig, settings |-> settings]

Init ==
    /\ self = InitSelf
    /\ dlg_ubxconfig = None
    /\ settings \in [recordtrack : BOOLEAN]
    /\ data = <<>>
    /\ invoked = <<>>
    /\ calls = <<>>
    /\ ret = [exc |-> None, parsed |-> <<>>]
    /\ serial = <<>>
    /\ trackpoints = 0
    /\ pvt_recorded = 0
    /\ nmsgs = 0

IsTrackpoint(c) == c.to = "file_handler.add_trackpoint"

\* The serial reader hands one block to process_data.
ProcessData ==
    /\ nmsgs < MaxMsgs
    /\ \E d \in Frames :
         \E r \in {process_data(self, App, d)} :
             /\ self' = r.self
             /\ data' = d
             /\ invoked' = r.invoked
             /\ calls' = r.calls
             /\ ret' = [exc |-> r.exc, parsed |-> r.parsed]
             /\ trackpoints' = trackpoints + Len(SelectSeq(r.calls, IsTrackpoint))
             /\ pvt_recorded' =
                  IF r.invoked = <<"NAV-PVT">> /\ r.exc = None /\ settings.recordtrack
                  THEN pvt_recorded + 1 ELSE pvt_recorded
    /\ nmsgs' = nmsgs + 1
    /\ UNCHANGED <<dlg_ubxconfig, settings, serial>>

\* The application polls the device configuration, writing to a sink of its own.
PollUbxConfig ==
    /\ serial' = poll_ubx_config
    /\ UNCHANGED <<self, dlg_ubxconfig, settings, data, invoked, calls, ret,
                   trackpoints, pvt_recorded, nmsgs>>

\* The user opens or closes the UBX config dialog.
ToggleDialog ==
    /\ dlg_ubxconfig' = IF dlg_ubxconfig = None THEN "dialog" ELSE None
    /\ UNCHANGED <<self, settings, data, invoked, calls, ret, serial, trackpoints,
                   pvt_recorded, nmsgs>>

\* The user switches track recording on or off.
ToggleRecordTrack ==
    /\ settings' = [settings EXCEPT !.recordtrack = ~@]
    /\ UNCHANGED <<self, dlg_ubxconfig, data, invoked, calls, ret, serial,
                   trackpoints, pvt_recorded, nmsgs>>

Next == ProcessData \/ PollUbxConfig \/ ToggleDialog \/ ToggleRecordTrack

Spec == Init /\ [][Next]_vars

(***************************************************************************)
(* Properties                                                              *)
(***************************************************************************)
\* A step that is one process_data call.
Processed == nmsgs' = nmsgs + 1

Ident(d) == UBX_MSGIDS[<<d[3], d[4]>>]

Payload(d) == Slice(d, 6, Len(d) - 2)

\* Preamble, declared length and checksum all as the protocol says.
WellFormed(d) ==
    /\ Len(d) >= 8
    /\ Slice(d, 0, 2) = UBX_HDR
    /\ U2(d, 4) = Len(Payload(d))
    /\ ChecksumOK(d)

\* The payload has the length the protocol gives the identity.
FullLayout(d) ==
    LET n  == Len(Payload(d))
        id == Ident(d)
    IN  CASE id \in {"ACK-ACK", "ACK-NAK"} -> n = 2
          [] id = "CFG-MSG" -> n = 8
          [] id = "CFG-PRT" -> n = 20
          [] id = "NAV-POSLLH" -> n = 28
          [] id = "NAV-PVT" -> n = 92
          [] id = "NAV-VELNED" -> n = 36
          [] id = "NAV-SVINFO" -> n >= 8 /\ n = 8 + 12 * Payload(d)[5]
          [] id = "NAV-SOL" -> n = 52
          [] id = "NAV-DOP" -> n = 18
          [] id = "MON-VER" -> n >= 40 /\ (n - 40) % 30 = 0
          [] OTHER -> TRUE

CallsTo(cs, to) == SelectSeq(cs, LAMBDA c : c.to = to)

\* Calls that hand decoded values to the application: everything but the console.
SemanticCalls(cs) == SelectSeq(cs, LAMBDA c : c.to # "frm_console.update_console")

\* C1: a block whose trailing checksum bytes differ from the checksum computed
\* over class, id, length and payload is not decoded: process_data invokes no
\* handler, changes no field of the handler object and makes no banner, map,
\* satellite view, config dialog or track file call.
C1_BadChecksumNotDecoded ==
    [][(Processed /\ ~ChecksumOK(data'))
         => (invoked' = <<>> /\ self' = self /\ SemanticCalls(calls') = <<>>)]_vars

C3_HandledNeverRaises ==
    (nmsgs > 0 /\ WellFormed(data) /\ FullLayout(data) /\ Ident(data) \in Handled)
        => ret.exc = None

\* The i-th per-satellite group of a NAV-SVINFO payload, read off the bytes:
\* svid at byte 1 of the group, cno at byte 4, elev (signed) at byte 5, azim
\* (signed, two bytes) at bytes 6 and 7.
SvOnWire(p, i) ==
    LET g    == 8 + 12 * (i - 1)
        elev == IF p[g + 6] >= 128 THEN p[g + 6] - 256 ELSE p[g + 6]
        az   == p[g + 7] + 256 * p[g + 8]
        azim == IF az >= 32768 THEN az - 65536 ELSE az
    IN  <<p[g + 2], elev, azim, p[g + 5]>>

\* Number of whole per-satellite groups a NAV-SVINFO payload carries.
SvCarried(p) == (Len(p) - 8) \div 12

\* C4: after a NAV-SVINFO message declaring N channels and carrying exactly N
\* groups, gsv_data is the N tuples (svid, elev, azim, cno) of the groups in
\* payload order, whatever was held before, and the satellite view and the
\* graph view were handed that same list.
C4_SvinfoRebuildsList ==
    (/\ nmsgs > 0
     /\ Ident(data) = "NAV-SVINFO"
     /\ Len(Payload(data)) >= 8
     /\ Len(Payload(data)) = 8 + 12 * Payload(data)[5])
    => LET p == Payload(data)
           n == p[5]
       IN  /\ self.gsv_data = [i \in 1..n |-> SvOnWire(p, i)]
           /\ Len(CallsTo(calls, "frm_satview.update_sats")) = 1
           /\ CallsTo(calls, "frm_satview.update_sats")[1].args.data = self.gsv_data
           /\ Len(CallsTo(calls, "frm_graphview.update_graph")) = 1
           /\ CallsTo(calls, "frm_graphview.update_graph")[1].args.data = self.gsv_data
           /\ CallsTo(calls, "frm_graphview.update_graph")[1].args.siv = n

C4_Witness ==
    /\ nmsgs = 2
    /\ Ident(data) = "NAV-SVINFO"
    /\ Payload(data)[5] = 2
    /\ self.gsv_data = << <<7, 10, 359, 22>>, <<5, 45, 120, 38>> >>
    /\ Len(CallsTo(calls, "frm_satview.update_sats")) = 1

\* C5: a NAV-SVINFO message declaring more channels than it carries groups
\* ends in a decode error result, not an exception; no list reaches the
\* satellite view or the graph view and gsv_data keeps what it held.
C5_ShortSvinfoRejected ==
    [][(/\ Processed
        /\ Ident(data') = "NAV-SVINFO"
        /\ Len(Payload(data')) >= 8
        /\ SvCarried(Payload(data')) < Payload(data')[5])
       => /\ ret'.exc = None
          /\ CallsTo(calls', "frm_satview.update_sats") = <<>>
          /\ CallsTo(calls', "frm_graphview.update_graph") = <<>>
          /\ self'.gsv_data = self.gsv_data]_vars

\* Bytes a..b (0-based, b exclusive) of a payload without the nulls, or <<>>
\* when the payload ends before b.
TextOnWire(p, a, b) == IF Len(p) >= b THEN StripNulls(Slice(p, a, b)) ELSE <<>>

\* C6: a MON-VER message is shown in the open config dialog exactly once, with
\* the nulls stripped from its texts; a version field the message lacks is
\* shown as "n/a", and firmware version and protocol are "n/a" when no
\* extension names them.
C6_MonVerDefaults ==
    [][(/\ Processed
        /\ Ident(data') = "MON-VER"
        /\ dlg_ubxconfig # None
        /\ Utf8Ok(Payload(data')))
       => LET p == Payload(data')
              u == CallsTo(calls', "dlg_ubxconfig.update")
          IN  /\ ret'.exc = None
              /\ Len(u) = 1
              /\ u[1].args.msg = "MON-VER"
              /\ Len(p) < 30 => u[1].args.swversion = NA
              /\ Len(p) < 40 => u[1].args.hwversion = NA
              /\ Len(p) >= 40 => u[1].args.hwversion = TextOnWire(p, 30, 40)
              /\ (\A i \in 1..4 : ~Contains(TextOnWire(p, 10 + 30 * i, 40 + 30 * i), FWVER_EQ))
                    => u[1].args.fwversion = NA
              /\ (\A i \in 1..4 :
                    /\ ~Contains(TextOnWire(p, 10 + 30 * i, 40 + 30 * i), PROTVER_EQ)
                    /\ ~Contains(TextOnWire(p, 10 + 30 * i, 40 + 30 * i), PROTVER_SP))
                    => u[1].args.protocol = NA]_vars

\* f is the fraction raw / d: f = <<n, m>> in lowest terms with n / m = raw / d.
IsFraction(f, raw, d) ==
    /\ f[2] > 0
    /\ d % f[2] = 0
    /\ f[1] * (d \div f[2]) = raw
    /\ GCD(Abs(f[1]), f[2]) = 1

LastMsg == parse(data, FALSE)

Banner == CallsTo(calls, "frm_banner.update_banner")

\* C7: after NAV-POSLLH and NAV-PVT, lat and lon are the raw integers over
\* 10^7 and alt, hacc, vacc are hMSL, hAcc, vAcc over 1000; NAV-PVT headMot and
\* NAV-VELNED heading are over 10^5; every pDOP, hDOP, vDOP is over 100; and the
\* banner is handed the stored values.
C7_Scaling ==
    (nmsgs > 0 /\ FullLayout(data) /\ ret.exc = None) =>
    LET m  == LastMsg
        id == Ident(data)
    IN  /\ id \in {"NAV-POSLLH", "NAV-PVT"} =>
              /\ IsFraction(self.lat, Attr(m, "lat", 0), 10000000)
              /\ IsFraction(self.lon, Attr(m, "lon", 0), 10000000)
              /\ IsFraction(self.alt, Attr(m, "hMSL", 0), 1000)
              /\ IsFraction(self.hacc, Attr(m, "hAcc", 0), 1000)
              /\ IsFraction(self.vacc, Attr(m, "vAcc", 0), 1000)
              /\ Len(Banner) = 1
              /\ Banner[1].args.lat = self.lat
              /\ Banner[1].args.lon = self.lon
              /\ Banner[1].args.alt = self.alt
              /\ Banner[1].args.hacc = self.hacc
              /\ Banner[1].args.vacc = self.vacc
        /\ id = "NAV-PVT" =>
              /\ IsFraction(self.track, Attr(m, "headMot", 0), 100000)
              /\ IsFraction(self.pdop, Attr(m, "pDOP", 0), 100)
              /\ Banner[1].args.track = self.track
              /\ Banner[1].args.dop = self.pdop
        /\ id = "NAV-VELNED" =>
              /\ IsFraction(self.track, Attr(m, "heading", 0), 100000)
              /\ Len(Banner) = 1
              /\ Banner[1].args.track = self.track
        /\ id = "NAV-SOL" =>
              /\ IsFraction(self.pdop, Attr(m, "pDOP", 0), 100)
              /\ Len(Banner) = 1
              /\ Banner[1].args.dop = self.pdop
        /\ id = "NAV-DOP" =>
              /\ IsFraction(self.pdop, Attr(m, "pDOP", 0), 100)
              /\ IsFraction(self.hdop, Attr(m, "hDOP", 0), 100)
              /\ IsFraction(self.vdop, Attr(m, "vDOP", 0), 100)
              /\ Len(Banner) = 1
              /\ Banner[1].args.dop = self.pdop
              /\ Banner[1].args.hdop = self.hdop
              /\ Banner[1].args.vdop = self.vdop

\* Raw latitude 473397123 is stored as 47.3397123 and raw hMSL 123456 as
\* 123.456 (= 15432 / 125).
C7_Witness ==
    /\ nmsgs > 0
    /\ Ident(data) = "NAV-POSLLH"
    /\ Attr(LastMsg, "lat", 0) = 473397123
    /\ Attr(LastMsg, "hMSL", 0) = 123456
    /\ self.lat = <<473397123, 10000000>>
    /\ self.alt = <<15432, 125>>
    /\ Banner[1].args.alt = <<15432, 125>>

\* C8: a poll_ubx_config call writes two frames to its sink and nothing else,
\* first the empty-payload CFG-PRT poll B5 62 06 00 00 00 06 18, then the
\* empty-payload MON-VER poll B5 62 0A 04 00 00 0E 34, and leaves the handler
\* object and everything process_data produced untouched.
C8_PollWritesTwoFrames ==
    [][serial' # serial
         => /\ serial' = << <<181, 98, 6, 0, 0, 0, 6, 24>>,
                            <<181, 98, 10, 4, 0, 0, 14, 52>> >>
            /\ UNCHANGED <<self, dlg_ubxconfig, settings, data, invoked, calls, ret,
                           trackpoints, pvt_recorded, nmsgs>>]_vars

C8_Witness ==
    /\ Len(serial) = 2
    /\ serial[1] = <<181, 98, 6, 0, 0, 0, 6, 24>>
    /\ serial[2] = <<181, 98, 10, 4, 0, 0, 14, 52>>
    /\ nmsgs > 0
    /\ self.lat = <<473397123, 10000000>>

\* C9 as stated: over any sequence of messages there is one trackpoint per
\* NAV-PVT message processed while recordtrack was enabled.
C9_TrackpointPerPvt == trackpoints = pvt_recorded

Trackpoints(cs) == CallsTo(cs, "file_handler.add_trackpoint")

\* The date and time fields of a NAV-PVT payload name a moment datetime accepts.
PvtDateValid(p) ==
    ValidDateTime(p[5] + 256 * p[6], p[7], p[8], p[9], p[10], p[11])

\* C9 amended: process_data adds one trackpoint when the message is a NAV-PVT
\* with all its fields, recordtrack is enabled and the message's date and time
\* are valid, and none otherwise; the trackpoint carries the lat, lon, alt,
\* satellite count and pdop just stored from that message, and its fix is "3d"
\* for fix type 3, "2d" for fix type 2 and "none" for any other.
C9_TrackpointPerValidPvt ==
    [][Processed =>
        LET p  == Payload(data')
            tp == Trackpoints(calls')
        IN  IF /\ Ident(data') = "NAV-PVT"
               /\ Len(p) >= 78
               /\ settings.recordtrack
               /\ PvtDateValid(p)
            THEN /\ Len(tp) = 1
                 /\ trackpoints' = trackpoints + 1
                 /\ tp[1].args.lat = self'.lat
                 /\ tp[1].args.lon = self'.lon
                 /\ tp[1].args.ele = self'.alt
                 /\ tp[1].args.sat = self'.sip
                 /\ tp[1].args.pdop = self'.pdop
                 /\ IsFraction(tp[1].args.lat, I4(p, 28), 10000000)
                 /\ tp[1].args.sat = p[24]
                 /\ tp[1].args.fix \in {"3d", "2d", "none"}
                 /\ tp[1].args.fix = "3d" <=> p[21] = 3
                 /\ tp[1].args.fix = "2d" <=> p[21] = 2
            ELSE /\ tp = <<>>
                 /\ trackpoints' = trackpoints]_vars

C9_Witness ==
    /\ nmsgs = 2
    /\ trackpoints = 1
    /\ pvt_recorded = 2
    /\ Ident(data) = "NAV-PVT"
    /\ Len(Trackpoints(calls)) = 1
    /\ Trackpoints(calls)[1].args.fix = "2d"

\* The fields of the handler object outside `own` are as they were.
OnlyChanges(own) ==
    \A f \in DOMAIN self : f \notin own => self'[f] = self[f]

\* C10: each handled identity invokes its one handler, which changes only its
\* own fields of the handler object: NAV-DOP pdop, hdop, vdop; NAV-SOL pdop,
\* sip; NAV-VELNED track, speed; NAV-POSLLH utc, lat, lon, alt, hacc, vacc;
\* NAV-SVINFO gsv_data; CFG-PRT ubx_baudrate, ubx_inprot, ubx_outprot; ACK-ACK,
\* ACK-NAK, CFG-MSG, CFG-INF and MON-VER none, and the config dialog is updated
\* only while it is open.
C10_FrameEffect ==
    [][Processed =>
        LET id == Ident(data')
        IN  /\ id \in Handled => invoked' = <<id>>
            /\ id = "NAV-DOP" => OnlyChanges({"pdop", "hdop", "vdop"})
            /\ id = "NAV-SOL" => OnlyChanges({"pdop", "sip"})
            /\ id = "NAV-VELNED" => OnlyChanges({"track", "speed"})
            /\ id = "NAV-POSLLH" => OnlyChanges({"utc", "lat", "lon", "alt", "hacc", "vacc"})
            /\ id = "NAV-SVINFO" => OnlyChanges({"gsv_data"})
            /\ id = "CFG-PRT" => OnlyChanges({"ubx_baudrate", "ubx_inprot", "ubx_outprot"})
            /\ id \in {"ACK-ACK", "ACK-NAK", "CFG-MSG", "CFG-INF", "MON-VER"} => self' = self
            /\ dlg_ubxconfig = None => CallsTo(calls', "dlg_ubxconfig.update") = <<>>
            /\ Len(CallsTo(calls', "dlg_ubxconfig.update")) <= 1]_vars

C10_Witness ==
    /\ nmsgs = 2
    /\ Ident(data) = "CFG-PRT"
    /\ invoked = <<"CFG-PRT">>
    /\ self.ubx_baudrate = 115200
    /\ self.lat = <<473397123, 10000000>>
    /\ Len(CallsTo(calls, "dlg_ubxconfig.update")) = 1
====
